---- MODULE Spec2Model ----
(***************************************************************************)
(* C Lexer Analyzer (src/main.py): the regular-expression scanner          *)
(* lex_code, the token statistics get_token_stats, the shape-matching      *)
(* tree builder generate_parse_tree and the positional token comparison    *)
(* of the Compare page.                                                    *)
(*                                                                         *)
(* A Python string is a sequence of one-character strings; a token is the  *)
(* tuple <<line, kind, value>> of the source; list indices keep the        *)
(* source's 0-based numbering (Tok(i) is tokens[i]).                       *)
(***************************************************************************)
EXTENDS Integers, Sequences, FiniteSets, TLC

VARIABLES
    source,      \* lex_code: the text being scanned
    pos,         \* lex_code: 1-based position of the next finditer match
    line_no,     \* lex_code: line_no
    tokens,      \* lex_code: tokens; afterwards st.session_state.tokens
    errors,      \* lex_code: errors
    matched,     \* history: match.group() of every match processed so far
    lexpc,       \* "idle" | "scan" | "done"
    stats,       \* Statistics page: the dict of get_token_stats
    spc,         \* "idle" | "page" | "shown"
    i,           \* generate_parse_tree: cursor i
    program,     \* generate_parse_tree: children of Node("Program")
    bpc,         \* "idle" | "loop" | "returned" | "IndexError"
    code1,       \* Compare page: code1
    code2,       \* Compare page: code2
    tokens1,     \* Compare page: tokens1
    tokens2,     \* Compare page: tokens2
    equal,       \* Compare page: df1.equals(df2)
    diff_rows,   \* Compare page: diff_rows
    cpc          \* "idle" | "input" | "shown"

vars == <<source, pos, line_no, tokens, errors, matched, lexpc, stats, spc,
          i, program, bpc, code1, code2, tokens1, tokens2, equal, diff_rows, cpc>>

lexVars == <<source, pos, line_no, errors, matched, lexpc>>
statVars == <<stats, spc>>
treeVars == <<i, program, bpc>>
cmpVars == <<code1, code2, tokens1, tokens2, equal, diff_rows, cpc>>

-----------------------------------------------------------------------------
(* Bounds of the model.                                                    *)

\* longest text drawn from Alphabet
MaxLen == 3
\* longest run of word characters appended to a listed word
MaxSuffix == 2
\* longest token stream drawn from TreeLexemes
MaxTokens == 4
\* longest token stream drawn from StatLexemes
MaxStatTokens == 2
\* longest text of each side of the comparison drawn from CmpAlphabet
MaxCmpLen == 2

-----------------------------------------------------------------------------
(* Characters and the character classes of the patterns.                   *)

Digit == {"0","1","2","3","4","5","6","7","8","9"}
Lower == {"a","b","c","d","e","f","g","h","i","j","k","l","m",
          "n","o","p","q","r","s","t","u","v","w","x","y","z"}
Upper == {"A","B","C","D","E","F","G","H","I","J","K","L","M",
          "N","O","P","Q","R","S","T","U","V","W","X","Y","Z"}
\* [A-Za-z_]
IdentStart == Lower \cup Upper \cup {"_"}
\* \w, which also decides \b
WordChar == IdentStart \cup Digit
\* [ \t]
Blank == {" ", "\t"}
\* [ \t\r]
Space == {" ", "\t", "\r"}

\* the character at 1-based position p, "" outside the text
At(s, p) == IF p >= 1 /\ p <= Len(s) THEN s[p] ELSE ""

\* \b at position p: exactly one of the characters around p is a word character
Boundary(s, p) == (At(s, p - 1) \in WordChar) # (At(s, p) \in WordChar)

\* the literal w at position p
Lit(s, p, w) == p + Len(w) - 1 <= Len(s) /\ SubSeq(s, p, p + Len(w) - 1) = w

\* greedy [C]*: the first position from p on whose character is not in C
RECURSIVE RunEnd(_, _, _)
RunEnd(s, p, C) == IF p <= Len(s) /\ s[p] \in C THEN RunEnd(s, p + 1, C) ELSE p

\* the first position from p on holding a character of C, 0 when none
RECURSIVE Find(_, _, _)
Find(s, p, C) ==
    IF p > Len(s) THEN 0
    ELSE IF s[p] \in C THEN p
    ELSE Find(s, p + 1, C)

\* the first position from p on where the literal w starts, 0 when none
RECURSIVE FindLit(_, _, _)
FindLit(s, p, w) ==
    IF p + Len(w) - 1 > Len(s) THEN 0
    ELSE IF Lit(s, p, w) THEN p
    ELSE FindLit(s, p + 1, w)

-----------------------------------------------------------------------------
(* token_specs: each pattern as a matcher giving the position just after   *)
(* the match that starts at p, or 0 when the pattern does not match at p.  *)

\* (a|b|...): the first alternative, in order, that matches at p
RECURSIVE AltEnd(_, _, _, _)
AltEnd(s, p, alts, k) ==
    IF k > Len(alts) THEN 0
    ELSE IF Lit(s, p, alts[k]) THEN p + Len(alts[k])
    ELSE AltEnd(s, p, alts, k + 1)

\* WordAltEnd with the closing \b of the pattern left out
RECURSIVE WordAltEnd_NoClosingBoundary(_, _, _, _)
WordAltEnd_NoClosingBoundary(s, p, alts, k) ==
    IF k > Len(alts) \/ ~Boundary(s, p) THEN 0
    ELSE IF Lit(s, p, alts[k]) THEN p + Len(alts[k])
    ELSE WordAltEnd_NoClosingBoundary(s, p, alts, k + 1)

\* \b(a|b|...)\b: the first alternative that matches at p and ends at a \b
RECURSIVE WordAltEnd(_, _, _, _)
WordAltEnd(s, p, alts, k) ==
    IF k > Len(alts) \/ ~Boundary(s, p) THEN 0
    ELSE IF Lit(s, p, alts[k]) /\ Boundary(s, p + Len(alts[k]))
         THEN p + Len(alts[k])
    ELSE WordAltEnd(s, p, alts, k + 1)

\* [C]: one character of the class
ClassEnd(s, p, C) == IF At(s, p) \in C THEN p + 1 ELSE 0

AccessWords == << <<"p","r","i","v","a","t","e">>, <<"p","r","o","t","e","c","t","e","d">>, <<"p","u","b","l","i","c">> >>

DataTypeWords ==
    << <<"i","n","t">>, <<"f","l","o","a","t">>, <<"d","o","u","b","l","e">>, <<"c","h","a","r">>, <<"b","o","o","l">>, <<"s","t","r","i","n","g">>, <<"l","o","n","g">>,
       <<"s","h","o","r","t">>, <<"v","o","i","d">> >>

KeywordWords ==
    << <<"i","f">>, <<"e","l","s","e">>, <<"w","h","i","l","e">>, <<"f","o","r">>, <<"r","e","t","u","r","n">>, <<"b","r","e","a","k">>, <<"c","o","n","t","i","n","u","e">>,
       <<"s","w","i","t","c","h">>, <<"c","a","s","e">>, <<"d","e","f","a","u","l","t">>, <<"s","i","z","e","o","f">>, <<"d","o">>, <<"g","o","t","o">>, <<"e","n","u","m">>,
       <<"t","y","p","e","d","e","f">>, <<"s","t","r","u","c","t">>, <<"c","l","a","s","s">>, <<"c","o","n","s","t">>, <<"s","t","a","t","i","c">>, <<"v","o","l","a","t","i","l","e">>,
       <<"s","i","g","n","e","d">>, <<"u","n","s","i","g","n","e","d">>, <<"t","r","y">>, <<"c","a","t","c","h">>, <<"t","h","r","o","w">>, <<"n","e","w">>, <<"d","e","l","e","t","e">> >>

\* #include[ \t]*<[^>]+>
LibraryEnd(s, p) ==
    IF ~Lit(s, p, <<"#","i","n","c","l","u","d","e">>) THEN 0
    ELSE LET lt == RunEnd(s, p + 8, Blank)
             gt == Find(s, lt + 1, {">"})
         IN  IF At(s, lt) = "<" /\ gt > lt + 1 THEN gt + 1 ELSE 0

\* //[^\n]*
LineCommentEnd(s, p) ==
    IF ~Lit(s, p, <<"/","/">>) THEN 0
    ELSE LET nl == Find(s, p + 2, {"\n"})
         IN  IF nl = 0 THEN Len(s) + 1 ELSE nl

\* BlockCommentEnd with an opener that has no */ running to the end of the text
BlockCommentEnd_Swallow(s, p) ==
    IF ~Lit(s, p, <<"/","*">>) THEN 0
    ELSE LET close == FindLit(s, p + 2, <<"*","/">>)
         IN  IF close = 0 THEN Len(s) + 1 ELSE close + 2

\* /\*.*?\*/ under re.DOTALL: up to the first */ after the opener
BlockCommentEnd(s, p) ==
    IF ~Lit(s, p, <<"/","*">>) THEN 0
    ELSE LET close == FindLit(s, p + 2, <<"*","/">>)
         IN  IF close = 0 THEN 0 ELSE close + 2

\* \b\d+\.\d+\b
FloatEnd(s, p) ==
    IF ~(Boundary(s, p) /\ At(s, p) \in Digit) THEN 0
    ELSE LET dot == RunEnd(s, p, Digit)
             end == RunEnd(s, dot + 1, Digit)
         IN  IF At(s, dot) = "." /\ end > dot + 1 /\ Boundary(s, end)
             THEN end ELSE 0

\* \b\d+\b
IntegerEnd(s, p) ==
    IF ~(Boundary(s, p) /\ At(s, p) \in Digit) THEN 0
    ELSE LET end == RunEnd(s, p, Digit)
         IN  IF Boundary(s, end) THEN end ELSE 0

\* '([^\\']|\\.)'
CharConstEnd(s, p) ==
    IF At(s, p) # "'" THEN 0
    ELSE IF At(s, p + 1) = "\\"
         THEN IF At(s, p + 2) # "" /\ At(s, p + 3) = "'" THEN p + 4 ELSE 0
    ELSE IF At(s, p + 1) \notin {"", "'"} /\ At(s, p + 2) = "'" THEN p + 3
    ELSE 0

\* ([^\\"]|\\.)* greedy: the position where the repetition stops
RECURSIVE StringBodyEnd(_, _)
StringBodyEnd(s, p) ==
    IF p > Len(s) \/ s[p] = "\"" THEN p
    ELSE IF s[p] = "\\"
         THEN IF p + 1 <= Len(s) THEN StringBodyEnd(s, p + 2) ELSE p
    ELSE StringBodyEnd(s, p + 1)

\* "([^\\"]|\\.)*"
StringEnd(s, p) ==
    IF At(s, p) # "\"" THEN 0
    ELSE LET q == StringBodyEnd(s, p + 1)
         IN  IF At(s, q) = "\"" THEN q + 1 ELSE 0

\* \b[A-Za-z_][A-Za-z_0-9]*\b
IdentifierEnd(s, p) ==
    IF ~(Boundary(s, p) /\ At(s, p) \in IdentStart) THEN 0
    ELSE LET end == RunEnd(s, p, WordChar)
         IN  IF Boundary(s, end) THEN end ELSE 0

\* [ \t\r]+
WhitespaceEnd(s, p) ==
    IF At(s, p) \in Space THEN RunEnd(s, p, Space) ELSE 0

\* token_specs without its last, catch-all rule
token_specs_NoCatchAll ==
    << "Library", "Line_Comment", "Block_Comment", "Access_Specifier",
       "Data_Type", "Keyword", "Bracket_Parenthesis", "Delimiter",
       "Assignment_Operator", "Increment_Decrement_Operator",
       "Arithmetic_Operator", "Relational_Operator", "Logical_Operator",
       "Bitwise_Operator", "Float_Constant", "Integer_Constant",
       "Character_Constant", "String_Literal", "Identifier", "Whitespace",
       "Newline" >>

\* the names of token_specs, in list order
token_specs ==
    << "Library", "Line_Comment", "Block_Comment", "Access_Specifier",
       "Data_Type", "Keyword", "Bracket_Parenthesis", "Delimiter",
       "Assignment_Operator", "Increment_Decrement_Operator",
       "Arithmetic_Operator", "Relational_Operator", "Logical_Operator",
       "Bitwise_Operator", "Float_Constant", "Integer_Constant",
       "Character_Constant", "String_Literal", "Identifier", "Whitespace",
       "Newline", "Unknown_Token" >>

\* the pattern of token_specs named kind, matched at p
PatternEnd(kind, s, p) ==
    CASE kind = "Library" -> LibraryEnd(s, p)
      [] kind = "Line_Comment" -> LineCommentEnd(s, p)
      [] kind = "Block_Comment" -> BlockCommentEnd(s, p)
      [] kind = "Access_Specifier" -> WordAltEnd(s, p, AccessWords, 1)
      [] kind = "Data_Type" -> WordAltEnd(s, p, DataTypeWords, 1)
      [] kind = "Keyword" -> WordAltEnd(s, p, KeywordWords, 1)
      [] kind = "Bracket_Parenthesis" ->
             ClassEnd(s, p, {"{", "}", "[", "]", "(", ")"})
      [] kind = "Delimiter" -> ClassEnd(s, p, {";", ",", ":"})
      [] kind = "Assignment_Operator" -> ClassEnd(s, p, {"="})
      [] kind = "Increment_Decrement_Operator" ->
             AltEnd(s, p, << <<"+","+">>, <<"-","-">> >>, 1)
      [] kind = "Arithmetic_Operator" ->
             ClassEnd(s, p, {"+", "-", "*", "/", "%"})
      [] kind = "Relational_Operator" ->
             AltEnd(s, p, << <<"=","=">>, <<"!","=">>, <<"<","=">>, <<">","=">>, <<"<">>, <<">">> >>, 1)
      [] kind = "Logical_Operator" ->
             AltEnd(s, p, << <<"|","|">>, <<"&","&">>, <<"!">> >>, 1)
      [] kind = "Bitwise_Operator" ->
             AltEnd(s, p, << <<"&">>, <<"|">>, <<"^">>, <<"~">>, <<"<","<">>, <<">",">">> >>, 1)
      [] kind = "Float_Constant" -> FloatEnd(s, p)
      [] kind = "Integer_Constant" -> IntegerEnd(s, p)
      [] kind = "Character_Constant" -> CharConstEnd(s, p)
      [] kind = "String_Literal" -> StringEnd(s, p)
      [] kind = "Identifier" -> IdentifierEnd(s, p)
      [] kind = "Whitespace" -> WhitespaceEnd(s, p)
      [] kind = "Newline" -> ClassEnd(s, p, {"\n"})
      [] kind = "Unknown_Token" -> IF p <= Len(s) THEN p + 1 ELSE 0

\* compiled_regex: the alternation takes the first pattern, in list order,
\* that matches at p; k is the index of the pattern tried next and e the
\* result of the pattern before it
RECURSIVE RegexMatch(_, _, _, _)
RegexMatch(s, p, k, e) ==
    IF e # 0 THEN [kind |-> token_specs[k - 1], end |-> e]
    ELSE IF k > Len(token_specs) THEN [kind |-> "", end |-> 0]
    ELSE RegexMatch(s, p, k + 1, PatternEnd(token_specs[k], s, p))

\* compiled_regex matched at position p
compiled_regex(s, p) == RegexMatch(s, p, 1, 0)

\* the match object of a match m of compiled_regex at p; end = 0 when the
\* search of the text from p on found none
MatchAt(p, m) == [start |-> p, lastgroup |-> m.kind, end |-> m.end]

\* the next match of compiled_regex.finditer: the search for the first
\* position from p on where compiled_regex matches; m is the result at p
RECURSIVE Search(_, _, _)
Search(s, p, m) ==
    IF m.end # 0 \/ p >= Len(s) THEN MatchAt(p, m)
    ELSE Search(s, p + 1, compiled_regex(s, p + 1))

finditer(s, p) ==
    IF p > Len(s) THEN MatchAt(p, [kind |-> "", end |-> 0])
    ELSE Search(s, p, compiled_regex(s, p))

-----------------------------------------------------------------------------
(* lex_code.                                                               *)

\* the body of the for loop for the match m; st holds the loop's locals:
\* pos (where finditer goes on), line_no, tokens, errors and value
LexBody(st, m, value) ==
    IF m.lastgroup = "Whitespace"
    THEN [st EXCEPT !.pos = m.end, !.value = value]
    ELSE IF m.lastgroup = "Newline"
         THEN [st EXCEPT !.pos = m.end, !.value = value, !.line_no = @ + 1]
    ELSE IF m.lastgroup = "Unknown_Token"
         THEN [st EXCEPT !.pos = m.end, !.value = value,
                         !.errors = Append(@, <<st.line_no, "Unknown Token", value>>)]
    ELSE [st EXCEPT !.pos = m.end, !.value = value,
                    !.tokens = Append(@, <<st.line_no, m.lastgroup, value>>)]

\* match.group()
Group(s, m) == SubSeq(s, m.start, m.end - 1)

\* the for loop from the locals st on, m the next match of finditer
RECURSIVE LexLoop(_, _, _)
LexLoop(s, st, m) ==
    IF m.end = 0 THEN st
    ELSE LexLoop(s, LexBody(st, m, Group(s, m)), finditer(s, m.end))

\* the locals of lex_code before the loop
LexLocals ==
    [pos |-> 1, line_no |-> 1, tokens |-> <<>>, errors |-> <<>>, value |-> <<>>]

\* the locals of lex_code at its return for the text s
LexRun(s) == LexLoop(s, LexLocals, finditer(s, 1))

\* what lex_code returned with the locals st: the pair (tokens, errors)
Returned(st) == [tokens |-> st.tokens, errors |-> st.errors]

\* lex_code(source_code)
lex_code(s) == Returned(LexRun(s))

\* one iteration of the for loop of the running lex_code
LexStep ==
    /\ lexpc = "scan"
    /\ \E m \in {finditer(source, pos)} :
           /\ m.end # 0
           /\ \E st \in {LexBody([pos |-> pos, line_no |-> line_no, tokens |-> tokens,
                                  errors |-> errors, value |-> <<>>],
                                 m, Group(source, m))} :
                  /\ pos' = st.pos
                  /\ line_no' = st.line_no
                  /\ tokens' = st.tokens
                  /\ errors' = st.errors
                  /\ matched' = Append(matched, st.value)
    /\ UNCHANGED <<source, lexpc>>
    /\ UNCHANGED statVars
    /\ UNCHANGED treeVars
    /\ UNCHANGED cmpVars

\* finditer is exhausted: return tokens, errors
LexReturn ==
    /\ lexpc = "scan"
    /\ finditer(source, pos).end = 0
    /\ lexpc' = "done"
    /\ UNCHANGED <<source, pos, line_no, tokens, errors, matched>>
    /\ UNCHANGED statVars
    /\ UNCHANGED treeVars
    /\ UNCHANGED cmpVars

-----------------------------------------------------------------------------
(* get_token_stats.                                                        *)

\* the characters of a token_specs name
KindName(kind) ==
    CASE kind = "Library" -> <<"L","i","b","r","a","r","y">>
      [] kind = "Line_Comment" -> <<"L","i","n","e","_","C","o","m","m","e","n","t">>
      [] kind = "Block_Comment" -> <<"B","l","o","c","k","_","C","o","m","m","e","n","t">>
      [] kind = "Access_Specifier" -> <<"A","c","c","e","s","s","_","S","p","e","c","i","f","i","e","r">>
      [] kind = "Data_Type" -> <<"D","a","t","a","_","T","y","p","e">>
      [] kind = "Keyword" -> <<"K","e","y","w","o","r","d">>
      [] kind = "Bracket_Parenthesis" -> <<"B","r","a","c","k","e","t","_","P","a","r","e","n","t","h","e","s","i","s">>
      [] kind = "Delimiter" -> <<"D","e","l","i","m","i","t","e","r">>
      [] kind = "Assignment_Operator" -> <<"A","s","s","i","g","n","m","e","n","t","_","O","p","e","r","a","t","o","r">>
      [] kind = "Increment_Decrement_Operator" -> <<"I","n","c","r","e","m","e","n","t","_","D","e","c","r","e","m","e","n","t","_","O","p","e","r","a","t","o","r">>
      [] kind = "Arithmetic_Operator" -> <<"A","r","i","t","h","m","e","t","i","c","_","O","p","e","r","a","t","o","r">>
      [] kind = "Relational_Operator" -> <<"R","e","l","a","t","i","o","n","a","l","_","O","p","e","r","a","t","o","r">>
      [] kind = "Logical_Operator" -> <<"L","o","g","i","c","a","l","_","O","p","e","r","a","t","o","r">>
      [] kind = "Bitwise_Operator" -> <<"B","i","t","w","i","s","e","_","O","p","e","r","a","t","o","r">>
      [] kind = "Float_Constant" -> <<"F","l","o","a","t","_","C","o","n","s","t","a","n","t">>
      [] kind = "Integer_Constant" -> <<"I","n","t","e","g","e","r","_","C","o","n","s","t","a","n","t">>
      [] kind = "Character_Constant" -> <<"C","h","a","r","a","c","t","e","r","_","C","o","n","s","t","a","n","t">>
      [] kind = "String_Literal" -> <<"S","t","r","i","n","g","_","L","i","t","e","r","a","l">>
      [] kind = "Identifier" -> <<"I","d","e","n","t","i","f","i","e","r">>
      [] kind = "Whitespace" -> <<"W","h","i","t","e","s","p","a","c","e">>
      [] kind = "Newline" -> <<"N","e","w","l","i","n","e">>
      [] kind = "Unknown_Token" -> <<"U","n","k","n","o","w","n","_","T","o","k","e","n">>
      [] kind = "" -> <<>>

\* Python's  sub in text  for strings
Contains(sub, text) ==
    \E k \in 1..(Len(text) - Len(sub) + 1) : SubSeq(text, k, k + Len(sub) - 1) = sub

\* StatsBody with the Constant test an exact match of the two numeric kinds
StatsBody_NumericOnly(st, kind) ==
    IF kind = "Keyword" THEN [st EXCEPT !.Keyword = @ + 1]
    ELSE IF kind = "Identifier" THEN [st EXCEPT !.Identifier = @ + 1]
    ELSE IF kind \in {"Integer_Constant", "Float_Constant"}
         THEN [st EXCEPT !.Constant = @ + 1]
    ELSE IF Contains(<<"O","p","e","r","a","t","o","r">>, KindName(kind)) THEN [st EXCEPT !.Operator = @ + 1]
    ELSE st

\* the body of the for loop of get_token_stats for one token kind
StatsBody(st, kind) ==
    IF kind = "Keyword" THEN [st EXCEPT !.Keyword = @ + 1]
    ELSE IF kind = "Identifier" THEN [st EXCEPT !.Identifier = @ + 1]
    ELSE IF Contains(<<"C","o","n","s","t","a","n","t">>, KindName(kind)) THEN [st EXCEPT !.Constant = @ + 1]
    ELSE IF Contains(<<"O","p","e","r","a","t","o","r">>, KindName(kind)) THEN [st EXCEPT !.Operator = @ + 1]
    ELSE st

\* the for loop of get_token_stats over toks[k..]
RECURSIVE StatsLoop(_, _, _)
StatsLoop(toks, k, st) ==
    IF k > Len(toks) THEN st ELSE StatsLoop(toks, k + 1, StatsBody(st, toks[k][2]))

get_token_stats(toks) ==
    StatsLoop(toks, 1, [Keyword |-> 0, Identifier |-> 0, Constant |-> 0, Operator |-> 0])

\* the Statistics page: stats = get_token_stats(st.session_state.tokens)
StatisticsPage ==
    /\ spc = "page"
    /\ tokens # <<>>
    /\ stats' = get_token_stats(tokens)
    /\ spc' = "shown"
    /\ UNCHANGED <<tokens>>
    /\ UNCHANGED lexVars
    /\ UNCHANGED treeVars
    /\ UNCHANGED cmpVars

-----------------------------------------------------------------------------
(* generate_parse_tree.  A handler gives the root's new child, the cursor  *)
(* after it and whether a list index was out of range (IndexError), in     *)
(* which case the child holds the nodes attached before the failing read.  *)

\* tokens[k] of the source (0-based)
Tok(toks, k) == toks[k + 1]

\* anytree Node(name) with its children in attachment order
Node(name, children) == [name |-> name, children |-> children]

Leaf(name) == Node(name, <<>>)

Handled(k, node, raised) == [i |-> k, node |-> node, raised |-> raised]

\* str.strip(): leading and trailing whitespace removed
PyWhitespace == {" ", "\t", "\n", "\r"}

RECURSIVE LStrip(_)
LStrip(s) == IF s # <<>> /\ Head(s) \in PyWhitespace THEN LStrip(Tail(s)) ELSE s

RECURSIVE RStrip(_)
RStrip(s) ==
    IF s # <<>> /\ s[Len(s)] \in PyWhitespace THEN RStrip(SubSeq(s, 1, Len(s) - 1)) ELSE s

Strip(s) == RStrip(LStrip(s))

\* 1) kind in ('Delimiter', 'Bracket_Parenthesis')
IsSkipped(tok) == tok[2] \in {"Delimiter", "Bracket_Parenthesis"}

\* 2) kind == 'Data_Type' and val in ('int', 'float')
IsDeclaration(tok) == tok[2] = "Data_Type" /\ tok[3] \in {<<"i","n","t">>, <<"f","l","o","a","t">>}

\* 3) kind in ('Line_Comment', 'Block_Comment')
IsComment(tok) == tok[2] \in {"Line_Comment", "Block_Comment"}

\* 4) kind == 'Identifier' and i + 1 < len(tokens)
\*    and tokens[i + 1][1] == 'Assignment_Operator'
IsAssignment(toks, k) ==
    /\ Tok(toks, k)[2] = "Identifier"
    /\ k + 1 < Len(toks)
    /\ Tok(toks, k + 1)[2] = "Assignment_Operator"

\* 5) kind == 'Keyword' and val == 'if'
IsIf(tok) == tok[2] = "Keyword" /\ tok[3] = <<"i","f">>

\* 6) kind == 'Keyword' and val == 'return'
IsReturn(tok) == tok[2] = "Keyword" /\ tok[3] = <<"r","e","t","u","r","n">>

\* 7) kind == 'Keyword' and val == 'End'
IsEnd(tok) == tok[2] = "Keyword" /\ tok[3] = <<"E","n","d">>

\* 2) the declaration handler, the cursor k on the data type
Declaration(toks, k) ==
    LET n == Len(toks)
        val == Tok(toks, k)[3]
        name == <<"D","e","c","l","a","r","a","t","i","o","n","(">> \o val \o <<")">>
        ctype == IF val = <<"f","l","o","a","t">> THEN "Float_Constant" ELSE "Integer_Constant"
    IN  IF k + 1 >= n THEN Handled(k + 1, Node(name, <<>>), TRUE)
        ELSE LET id == Leaf(<<"I","D",":"," ">> \o Tok(toks, k + 1)[3])
             IN  IF k + 2 < n /\ Tok(toks, k + 2)[2] = "Assignment_Operator"
                 THEN IF k + 3 >= n
                      THEN Handled(k + 3, Node(name, <<id>>), TRUE)
                      ELSE Handled(k + 4,
                               Node(name, <<id, Leaf(KindName(ctype) \o <<":"," ">>
                                                      \o Tok(toks, k + 3)[3])>>),
                               FALSE)
                 ELSE Handled(k + 2, Node(name, <<id>>), FALSE)

\* 3) the comment handler
Comment(toks, k) ==
    Handled(k + 1, Leaf(<<"C","o","m","m","e","n","t",":"," ">> \o Strip(Tok(toks, k)[3])), FALSE)

\* ExprLeaf with a leaf for a token of any kind
ExprLeaf_EveryKind(tok) ==
    IF tok[2] \in {"Identifier"} THEN <<Leaf(<<"I","D",":"," ">> \o tok[3])>>
    ELSE <<Leaf(KindName(tok[2]) \o <<":"," ">> \o tok[3])>>

\* 4) the leaf the expression loop attaches for one token, <<>> when none
ExprLeaf(tok) ==
    IF tok[2] \in {"Identifier"} THEN <<Leaf(<<"I","D",":"," ">> \o tok[3])>>
    ELSE IF tok[2] \in {"Arithmetic_Operator", "Integer_Constant", "Float_Constant"}
         THEN <<Leaf(KindName(tok[2]) \o <<":"," ">> \o tok[3])>>
    ELSE <<>>

\* 4) while i < len(tokens) and tokens[i][1] != 'Delimiter'
RECURSIVE ExprLoop(_, _, _)
ExprLoop(toks, k, leaves) ==
    IF k < Len(toks) /\ Tok(toks, k)[2] # "Delimiter"
    THEN ExprLoop(toks, k + 1, leaves \o ExprLeaf(Tok(toks, k)))
    ELSE [i |-> k, leaves |-> leaves]

\* 4) the assignment handler, the cursor k on the identifier
Assignment(toks, k) ==
    LET e == ExprLoop(toks, k + 2, <<>>)
    IN  Handled(e.i + 1,
                Node(<<"A","s","s","i","g","n","m","e","n","t">>, <<Leaf(<<"I","D",":"," ">> \o Tok(toks, k)[3]),
                                      Node(<<"E","x","p","r","e","s","s","i","o","n">>, e.leaves)>>),
                FALSE)

\* 5) while i < n and not (tokens[i][1] == 'Bracket_Parenthesis'
\*                         and tokens[i][2] == bracket)
RECURSIVE SkipTo(_, _, _)
SkipTo(toks, k, bracket) ==
    IF k < Len(toks) /\ ~(Tok(toks, k)[2] = "Bracket_Parenthesis"
                          /\ Tok(toks, k)[3] = bracket)
    THEN SkipTo(toks, k + 1, bracket)
    ELSE k

\* the leaf of an unconditional read  _, _, x = tokens[k]; Node(prefix + x),
\* <<>> when the read raises
ReadLeaf(toks, k, prefix) ==
    IF k < Len(toks) THEN <<Leaf(prefix \o Tok(toks, k)[3])>> ELSE <<>>

\* 5) the if handler, the cursor k on the keyword
If(toks, k) ==
    LET n == Len(toks)
        c1 == SkipTo(toks, k + 1, <<"(">>) + 1
        c2 == c1 + 1
        c3 == c2 + 1
        b1 == SkipTo(toks, c3 + 1, <<"{">>) + 1
        b2 == b1 + 2
        b3 == b2 + 1
        b4 == b3 + 1
        cond == Node(<<"E","x","p","r","e","s","s","i","o","n">>,
                     IF c1 >= n THEN <<>>
                     ELSE IF c2 >= n THEN ReadLeaf(toks, c1, <<"I","D",":"," ">>)
                     ELSE ReadLeaf(toks, c1, <<"I","D",":"," ">>)
                          \o ReadLeaf(toks, c2, <<"R","e","l","a","t","i","o","n","a","l","_","O","p","e","r","a","t","o","r",":"," ">>)
                          \o ReadLeaf(toks, c3, <<"I","n","t","e","g","e","r","_","C","o","n","s","t","a","n","t",":"," ">>))
        expr2 == Node(<<"E","x","p","r","e","s","s","i","o","n">>,
                      IF b2 >= n THEN <<>>
                      ELSE IF b3 >= n THEN ReadLeaf(toks, b2, <<"I","D",":"," ">>)
                      ELSE ReadLeaf(toks, b2, <<"I","D",":"," ">>)
                           \o ReadLeaf(toks, b3, <<"A","r","i","t","h","m","e","t","i","c","_","O","p","e","r","a","t","o","r",":"," ">>)
                           \o ReadLeaf(toks, b4, <<"I","n","t","e","g","e","r","_","C","o","n","s","t","a","n","t",":"," ">>))
        asg == Node(<<"A","s","s","i","g","n","m","e","n","t">>,
                    IF b1 >= n THEN <<>>
                    ELSE ReadLeaf(toks, b1, <<"I","D",":"," ">>) \o <<expr2>>)
        stmt == Node(<<"S","t","a","t","e","m","e","n","t">>, <<asg>>)
        failed == CHOOSE r \in {c1, c2, c3, b1, b2, b3, b4, b4 + 1} :
                      /\ r >= n \/ r = b4 + 1
                      /\ \A q \in {c1, c2, c3, b1, b2, b3, b4} : q < r => q < n
    IN  Handled(failed,
                Node(<<"i","f","(",")">>, IF c3 >= n THEN <<cond>> ELSE <<cond, stmt>>),
                b4 >= n)

\* 6) the return handler, the cursor k on the keyword
Return(toks, k) ==
    IF k + 1 >= Len(toks) THEN Handled(k + 1, Node(<<"r","e","t","u","r","n","(",")">>, <<>>), TRUE)
    ELSE Handled(k + 2,
                 Node(<<"r","e","t","u","r","n","(",")">>, <<Leaf(<<"I","n","t","e","g","e","r","_","C","o","n","s","t","a","n","t",":"," ">> \o Tok(toks, k + 1)[3])>>),
                 FALSE)

\* 7) the End handler
End(toks, k) == Handled(k + 1, Leaf(<<"E","n","d">>), FALSE)

\* the cursor is inside the while loop of generate_parse_tree
InLoop == bpc = "loop" /\ i < Len(tokens)

\* a handler's effect on the builder's state; an IndexError ends the call
Attach(h) ==
    /\ program' = Append(program, h.node)
    /\ i' = h.i
    /\ bpc' = IF h.raised THEN "IndexError" ELSE "loop"

TreeFrame ==
    /\ UNCHANGED <<tokens>>
    /\ UNCHANGED lexVars
    /\ UNCHANGED statVars
    /\ UNCHANGED cmpVars

SkipStep ==
    /\ InLoop
    /\ IsSkipped(Tok(tokens, i))
    /\ i' = i + 1
    /\ UNCHANGED <<program, bpc>>
    /\ TreeFrame

DeclarationStep ==
    /\ InLoop
    /\ ~IsSkipped(Tok(tokens, i))
    /\ IsDeclaration(Tok(tokens, i))
    /\ Attach(Declaration(tokens, i))
    /\ TreeFrame

CommentStep ==
    /\ InLoop
    /\ ~IsSkipped(Tok(tokens, i))
    /\ ~IsDeclaration(Tok(tokens, i))
    /\ IsComment(Tok(tokens, i))
    /\ Attach(Comment(tokens, i))
    /\ TreeFrame

AssignmentStep ==
    /\ InLoop
    /\ ~IsSkipped(Tok(tokens, i))
    /\ ~IsDeclaration(Tok(tokens, i))
    /\ ~IsComment(Tok(tokens, i))
    /\ IsAssignment(tokens, i)
    /\ Attach(Assignment(tokens, i))
    /\ TreeFrame

\* none of the shapes 1) to 4)
PastAssignment ==
    /\ InLoop
    /\ ~IsSkipped(Tok(tokens, i))
    /\ ~IsDeclaration(Tok(tokens, i))
    /\ ~IsComment(Tok(tokens, i))
    /\ ~IsAssignment(tokens, i)

IfStep ==
    /\ PastAssignment
    /\ IsIf(Tok(tokens, i))
    /\ Attach(If(tokens, i))
    /\ TreeFrame

ReturnStep ==
    /\ PastAssignment
    /\ ~IsIf(Tok(tokens, i))
    /\ IsReturn(Tok(tokens, i))
    /\ Attach(Return(tokens, i))
    /\ TreeFrame

\* 7) the End marker, and the default  i += 1
DefaultStep ==
    /\ PastAssignment
    /\ ~IsIf(Tok(tokens, i))
    /\ ~IsReturn(Tok(tokens, i))
    /\ IF IsEnd(Tok(tokens, i))
       THEN Attach(End(tokens, i))
       ELSE i' = i + 1 /\ UNCHANGED <<program, bpc>>
    /\ TreeFrame

\* the while loop ends: return program
TreeReturn ==
    /\ bpc = "loop"
    /\ i >= Len(tokens)
    /\ bpc' = "returned"
    /\ UNCHANGED <<i, program>>
    /\ TreeFrame

-----------------------------------------------------------------------------
(* The Compare page.                                                       *)

\* pd.DataFrame(tokens, columns=["Line", "Type", "Value"]): one array a column
DataFrame(toks) ==
    [Line  |-> [k \in 1..Len(toks) |-> toks[k][1]],
     Type  |-> [k \in 1..Len(toks) |-> toks[k][2]],
     Value |-> [k \in 1..Len(toks) |-> toks[k][3]]]

\* DataFrame.equals: the same shape and the same elements
DfEquals(d1, d2) ==
    /\ Len(d1.Line) = Len(d2.Line)
    /\ \A k \in 1..Len(d1.Line) :
           d1.Line[k] = d2.Line[k] /\ d1.Type[k] = d2.Type[k] /\ d1.Value[k] = d2.Value[k]

\* ("", "", ""); the 0 stands for the '' of the line field, which equals no
\* line number of a token (line_no starts at 1)
Placeholder == <<0, "", <<>>>>

\* tokens[k] if k < len(tokens) else ("", "", "")
TokOr(toks, k) == IF k < Len(toks) THEN Tok(toks, k) ELSE Placeholder

\* f"{tok[1]}: {tok[2]}" if tok[1] else ""
Label(tok) == IF tok[2] # "" THEN KindName(tok[2]) \o <<":"," ">> \o tok[3] ELSE <<>>

Max(a, b) == IF a >= b THEN a ELSE b

\* DiffLoop over range(min(len(tokens1), len(tokens2)))
RECURSIVE DiffLoop_ToShorter(_, _, _, _)
DiffLoop_ToShorter(t1, t2, k, rows) ==
    IF k >= Len(t1) \/ k >= Len(t2) THEN rows
    ELSE LET tok1 == TokOr(t1, k)
             tok2 == TokOr(t2, k)
         IN  DiffLoop_ToShorter(t1, t2, k + 1,
                      IF tok1 # tok2
                      THEN Append(rows, [position |-> k + 1,
                                         left |-> Label(tok1),
                                         right |-> Label(tok2)])
                      ELSE rows)

\* for i in range(max_len), from index k on
RECURSIVE DiffLoop(_, _, _, _)
DiffLoop(t1, t2, k, rows) ==
    IF k >= Max(Len(t1), Len(t2)) THEN rows
    ELSE LET tok1 == TokOr(t1, k)
             tok2 == TokOr(t2, k)
         IN  DiffLoop(t1, t2, k + 1,
                      IF tok1 # tok2
                      THEN Append(rows, [position |-> k + 1,
                                         left |-> Label(tok1),
                                         right |-> Label(tok2)])
                      ELSE rows)

\* if code1 and code2: scan both, compare the frames, list the differences
ComparePage ==
    /\ cpc = "input"
    /\ code1 # <<>> /\ code2 # <<>>
    /\ \E t1 \in {lex_code(code1).tokens}, t2 \in {lex_code(code2).tokens} :
           \E eq \in {DfEquals(DataFrame(t1), DataFrame(t2))} :
               /\ tokens1' = t1
               /\ tokens2' = t2
               /\ equal' = eq
               /\ diff_rows' = IF eq THEN <<>> ELSE DiffLoop(t1, t2, 0, <<>>)
    /\ cpc' = "shown"
    /\ UNCHANGED <<code1, code2, tokens>>
    /\ UNCHANGED lexVars
    /\ UNCHANGED statVars
    /\ UNCHANGED treeVars

-----------------------------------------------------------------------------
(* The texts the model scans.                                              *)

\* every text of 1..n characters of A
Texts(A, n) == UNION {[1..k -> A] : k \in 1..n}

\* every text of 0..n characters of A
TextsOrEmpty(A, n) == UNION {[1..k -> A] : k \in 0..n}

Range(f) == {f[k] : k \in DOMAIN f}

\* the texts of ws joined by sep
RECURSIVE Join(_, _)
Join(ws, sep) ==
    IF Len(ws) = 0 THEN <<>>
    ELSE IF Len(ws) = 1 THEN ws[1]
    ELSE ws[1] \o sep \o Join(Tail(ws), sep)

Alphabet == {"a", "1", "=", "<", "+", "/", "*", "\"", " ", "\n"}

SampleTexts ==
    { <<"i","n","t">>, <<"i","n","t","e","g","e","r">>, <<"i","f">>, <<"d","o","u","b","l","e">>, <<"a","\n","b","\n","c">>, <<"@">>, <<"i","n","t"," ","x"," ","="," ","5"," ",";">>,
      <<"i","n","t"," ","x",";">>, <<"/","*","\n","*","/","a">>, <<"/","*"," ","a"," ","*","/"," ","b">>, <<"/","*"," ","a","\n","b">>, <<"#","i","n","c","l","u","d","e"," ","<","a",".","h",">","\n","x">>,
      <<"c"," ","="," ","'","c","'"," ",";">>, <<"s"," ","="," ","\"","a","\\","\"","b","\""," ",";">>, <<"x"," ","=","="," ","1",".","5">>, <<"i","+","+"," ",";"," ","j"," ","<","<"," ","2">>,
      <<"i","f"," ","a"," ","b"," ","1">>, <<"p","|","q">> }

SuffixAlphabet == {"e", "2", "_"}

ListedWords == Range(DataTypeWords) \cup Range(KeywordWords)

\* a listed word, alone or followed by word characters
WordTexts ==
    {w \o suf : w \in ListedWords, suf \in TextsOrEmpty(SuffixAlphabet, MaxSuffix)}

Sources == Texts(Alphabet, MaxLen) \cup SampleTexts \cup WordTexts

\* one lexeme of every token kind
StatLexemes ==
    { <<"#","i","n","c","l","u","d","e","<","a",">">>, <<"/","/","c">>, <<"/","*","c","*","/">>, <<"p","u","b","l","i","c">>, <<"i","n","t">>, <<"i","f">>, <<"(">>, <<";">>,
      <<"=">>, <<"+","+">>, <<"+">>, <<"<">>, <<"!">>, <<"&">>, <<"1",".","5">>, <<"7">>, <<"'","c","'">>, <<"\"","s","\"">>, <<"x">> }

StatSources ==
    {Join(ws, <<"\n">>) : ws \in Texts(StatLexemes, MaxStatTokens)}
        \cup { <<"i","f"," ","a"," ","b"," ","1">>, <<"x"," ","="," ","'","c","'"," ","+"," ","\"","s","\""," ",";">> }

TreeLexemes == { <<"i","n","t">>, <<"x">>, <<"=">>, <<"5">>, <<";">>, <<"+">>, <<"(">>, <<"i","f">>, <<"r","e","t","u","r","n">> }

TreeSamples ==
    { <<"i","n","t"," ","x"," ","="," ","5"," ",";">>, <<"f","l","o","a","t"," ","y"," ","="," ","2",".","5"," ",";">>, <<"f","l","o","a","t"," ","z"," ","="," ","1"," ",";">>, <<"/","/"," ","n","o","t","e"," ","\n","x"," ","="," ","x"," ","+"," ","1"," ",";">>,
      <<"i","f"," ","("," ","x"," ","<"," ","5"," ",")"," ","{"," ","y"," ","="," ","y"," ","+"," ","1"," ",";"," ","}">>, <<"x"," ","="," ","a"," ","*"," ","("," ","b"," ","-"," ","2",".","5"," ",")"," ",";"," ","r","e","t","u","r","n"," ","0"," ",";">>,
      <<"/","*"," ","c"," ","*","/"," ","i","n","t">>, <<"x"," ","="," ","i","n","t"," ","y"," ",";"," ","z"," ","="," ","1">> }

\* the token of each lexeme of TreeLexemes
TreeToken == [w \in TreeLexemes |-> lex_code(w).tokens[1]]

CmpAlphabet == {"a", "b", "=", " ", "\n"}

CmpSources == Texts(CmpAlphabet, MaxCmpLen) \cup { <<"i","n","t"," ","x",";">>, <<"i","n","t"," ","y",";">> }

-----------------------------------------------------------------------------
(* Specifications.                                                         *)

LexIdle ==
    /\ source = <<>> /\ pos = 1 /\ line_no = 1 /\ tokens = <<>> /\ errors = <<>>
    /\ matched = <<>> /\ lexpc = "idle"

\* the session after the Home page scanned src: st.session_state.code, .tokens
\* and .errors hold the text and what lex_code returned for it
Scanned(src) ==
    \E result \in {lex_code(src)} :
        /\ source = src
        /\ tokens = result.tokens
        /\ errors = result.errors
        /\ pos = 1 /\ line_no = 1 /\ matched = <<>> /\ lexpc = "done"

StatIdle == stats = get_token_stats(<<>>) /\ spc = "idle"

TreeIdle == i = 0 /\ program = <<>> /\ bpc = "idle"

CmpIdle ==
    /\ code1 = <<>> /\ code2 = <<>> /\ tokens1 = <<>> /\ tokens2 = <<>>
    /\ equal = FALSE /\ diff_rows = <<>> /\ cpc = "idle"

\* the Home page: lex_code is called on a non-empty text
Init ==
    /\ source \in Sources
    /\ pos = 1 /\ line_no = 1 /\ tokens = <<>> /\ errors = <<>>
    /\ matched = <<>> /\ lexpc = "scan"
    /\ StatIdle /\ TreeIdle /\ CmpIdle

Next == LexStep \/ LexReturn

Spec == Init /\ [][Next]_vars

\* the Statistics page on the tokens of a scanned text
StatInit ==
    /\ \E src \in StatSources : Scanned(src)
    /\ stats = get_token_stats(<<>>) /\ spc = "page"
    /\ TreeIdle /\ CmpIdle

StatNext == StatisticsPage

StatSpec == StatInit /\ [][StatNext]_vars

\* the Parse Tree page: generate_parse_tree is called on the tokens of a
\* scanned text
TreeInit ==
    /\ \/ \E ws \in Texts(TreeLexemes, MaxTokens) :
              /\ source = Join(ws, <<" ">>)
              /\ tokens = [k \in 1..Len(ws) |-> TreeToken[ws[k]]]
              /\ errors = <<>>
              /\ pos = 1 /\ line_no = 1 /\ matched = <<>> /\ lexpc = "done"
       \/ \E src \in TreeSamples : Scanned(src)
    /\ tokens # <<>>
    /\ i = 0 /\ program = <<>> /\ bpc = "loop"
    /\ StatIdle /\ CmpIdle

\* the streams TreeInit builds from TreeToken are the scans of their texts
TreeInitScanned == bpc = "loop" /\ i = 0 => tokens = lex_code(source).tokens

TreeNext ==
    \/ SkipStep
    \/ DeclarationStep
    \/ CommentStep
    \/ AssignmentStep
    \/ IfStep
    \/ ReturnStep
    \/ DefaultStep
    \/ TreeReturn

TreeSpec == TreeInit /\ [][TreeNext]_vars

\* the Compare page with two non-empty texts
CmpInit ==
    /\ code1 \in CmpSources /\ code2 \in CmpSources
    /\ tokens1 = <<>> /\ tokens2 = <<>> /\ equal = FALSE /\ diff_rows = <<>>
    /\ cpc = "input"
    /\ LexIdle /\ StatIdle /\ TreeIdle

CmpNext == ComparePage

CmpSpec == CmpInit /\ [][CmpNext]_vars

-----------------------------------------------------------------------------
(* Properties.                                                             *)

\* the number of tokens of seq whose kind is one of kinds
CountKinds(seq, kinds) == Cardinality({k \in 1..Len(seq) : seq[k][2] \in kinds})

\* the number of newline characters of s before position p
NewlinesBefore(s, p) == Cardinality({k \in 1..(p - 1) : s[k] = "\n"})

\* the concatenation of a sequence of texts
RECURSIVE Concat(_)
Concat(ws) == IF ws = <<>> THEN <<>> ELSE Head(ws) \o Concat(Tail(ws))

\* the scan is at a position where a match is about to be processed
Scanning == lexpc = "scan" /\ pos <= Len(source)

\* C1: the texts "<<", "==" and "++" each scan to exactly one token, of the
\* multi-character operator's kind: Bitwise_Operator, Relational_Operator and
\* Increment_Decrement_Operator.
C1_MultiCharOperatorWins ==
    lexpc = "done" =>
        /\ source = <<"<","<">> => tokens = << <<1, "Bitwise_Operator", <<"<","<">>>> >>
        /\ source = <<"=","=">> => tokens = << <<1, "Relational_Operator", <<"=","=">>>> >>
        /\ source = <<"+","+">> => tokens = << <<1, "Increment_Decrement_Operator", <<"+","+">>>> >>

\* C1: the one of the three texts the rule order does scan as one token
C1_Witness ==
    /\ lexpc = "done"
    /\ source = <<"+","+">>
    /\ tokens = << <<1, "Increment_Decrement_Operator", <<"+","+">>>> >>

\* C2 (state part): the lexemes of the matches processed so far, concatenated
\* in order, are exactly the text before the scan position, none of them is
\* empty, compiled_regex matches at every scan position inside the text (so the
\* loop goes on until the text is used up), and the returned scan has
\* processed the whole text.
C2_Accounted ==
    /\ Concat(matched) = SubSeq(source, 1, pos - 1)
    /\ \A k \in 1..Len(matched) : matched[k] # <<>>
    /\ pos <= Len(source) + 1
    /\ Scanning => finditer(source, pos).start = pos /\ finditer(source, pos).end > pos
    /\ lexpc = "done" => pos = Len(source) + 1

\* C2 (step part): a processed match moves the position forward over its
\* lexeme and has exactly one outcome: one token appended with that lexeme,
\* one error appended with that lexeme, or nothing appended and the lexeme is
\* whitespace or a newline.
C2_OneOutcome ==
    pos' # pos =>
        LET lexeme == SubSeq(source, pos, pos' - 1)
            asToken == /\ Len(tokens') = Len(tokens) + 1
                       /\ SubSeq(tokens', 1, Len(tokens)) = tokens
                       /\ tokens'[Len(tokens')][3] = lexeme
            asError == /\ Len(errors') = Len(errors) + 1
                       /\ SubSeq(errors', 1, Len(errors)) = errors
                       /\ errors'[Len(errors')][2] = "Unknown Token"
                       /\ errors'[Len(errors')][3] = lexeme
            discarded == \/ \A k \in 1..Len(lexeme) : lexeme[k] \in Space
                         \/ lexeme = <<"\n">>
        IN  /\ pos' > pos
            /\ matched' = Append(matched, lexeme)
            /\ \/ asToken /\ errors' = errors
               \/ asError /\ tokens' = tokens
               \/ tokens' = tokens /\ errors' = errors /\ discarded

\* C2: lex_code terminates on every text (every step moves the position
\* forward, the position never passes the end of the text, and there is a
\* match at every position before the end), and the matches it processes partition the
\* text, each with exactly one outcome (token, error or discarded
\* whitespace/newline).
C2_ScanPartitionsInput == []C2_Accounted /\ [][C2_OneOutcome]_vars

\* C2: a finished scan in which all three outcomes occurred
C2_Witness ==
    /\ lexpc = "done"
    /\ tokens # <<>>
    /\ errors # <<>>
    /\ Len(matched) > Len(tokens) + Len(errors)

\* C3: generate_parse_tree never fails with an out-of-range token index: it
\* always completes by returning the Program root.
C3_NoIndexError == bpc # "IndexError"

\* C3: a call that ran through a declaration and returned the root
C3_Witness ==
    /\ bpc = "returned"
    /\ source = <<"i","n","t"," ","x"," ","="," ","5"," ",";">>
    /\ Len(program) = 1

\* the indices (0-based) at which the two streams differ, an out-of-range
\* side differing from every token
DifferingIndices(a, b) ==
    {k \in 0..(Max(Len(a), Len(b)) - 1) :
        \/ k >= Len(a)
        \/ k >= Len(b)
        \/ Tok(a, k)[1] # Tok(b, k)[1]
        \/ Tok(a, k)[2] # Tok(b, k)[2]
        \/ Tok(a, k)[3] # Tok(b, k)[3]}

\* "category: lexeme" of the token at index k, the empty text out of range
SideLabel(a, k) ==
    IF k < Len(a) THEN KindName(Tok(a, k)[2]) \o <<":"," ">> \o Tok(a, k)[3] ELSE <<>>

\* C4: the comparison of the two scanned streams reports equal exactly when
\* they have the same length and agree at every index on line, category and
\* lexeme, and then lists no row; otherwise it lists one row for exactly the
\* differing indices, in increasing order, with position index + 1 and the
\* labels "category: lexeme" (empty for a side that is out of range).  A text
\* against itself is equal with no rows; "int x;" against "int y;" gives one
\* row, at position 2.
C4_DiffRows ==
    cpc = "shown" =>
        LET d == DifferingIndices(tokens1, tokens2)
        IN  /\ tokens1 = lex_code(code1).tokens
            /\ tokens2 = lex_code(code2).tokens
            /\ equal <=> d = {}
            /\ Len(diff_rows) = Cardinality(d)
            /\ \A r \in 1..Len(diff_rows) :
                   /\ diff_rows[r].position - 1 \in d
                   /\ r > 1 => diff_rows[r - 1].position < diff_rows[r].position
                   /\ diff_rows[r].left = SideLabel(tokens1, diff_rows[r].position - 1)
                   /\ diff_rows[r].right = SideLabel(tokens2, diff_rows[r].position - 1)
            /\ code1 = code2 => equal /\ diff_rows = <<>>
            /\ (code1 = <<"i","n","t"," ","x",";">> /\ code2 = <<"i","n","t"," ","y",";">>) =>
                   /\ ~equal
                   /\ Len(diff_rows) = 1
                   /\ diff_rows[1].position = 2

\* C4: the compared streams have different lengths and differ before the
\* shorter one ends
C4_Witness ==
    /\ cpc = "shown"
    /\ ~equal
    /\ Len(tokens1) > Len(tokens2)
    /\ Len(tokens2) > 0
    /\ diff_rows[1].position = 1
    /\ diff_rows[Len(diff_rows)].right = <<>>

NumericConstantKinds == {"Integer_Constant", "Float_Constant"}

CountedConstantKinds == NumericConstantKinds \cup {"Character_Constant"}

OperatorKinds ==
    {"Assignment_Operator", "Increment_Decrement_Operator",
     "Arithmetic_Operator", "Relational_Operator", "Logical_Operator",
     "Bitwise_Operator"}

\* C5 as stated: the Constant counter is the number of Integer_Constant and
\* Float_Constant tokens only.
C5_ConstantIsNumericOnly ==
    spc = "shown" => stats.Constant = CountKinds(tokens, NumericConstantKinds)

\* C5 as amended: the Constant counter is the number of Integer_Constant,
\* Float_Constant and Character_Constant tokens; a String_Literal token
\* increments no counter (Keyword, Identifier and Operator count exactly the
\* tokens of their kinds); the tokens of "if a b 1" give
\* {Keyword:1, Identifier:2, Constant:1, Operator:0}.
C5_ConstantCounter ==
    spc = "shown" =>
        /\ stats.Constant = CountKinds(tokens, CountedConstantKinds)
        /\ stats.Keyword = CountKinds(tokens, {"Keyword"})
        /\ stats.Identifier = CountKinds(tokens, {"Identifier"})
        /\ stats.Operator = CountKinds(tokens, OperatorKinds)
        /\ source = <<"i","f"," ","a"," ","b"," ","1">> =>
               stats = [Keyword |-> 1, Identifier |-> 2, Constant |-> 1, Operator |-> 0]

\* C5: statistics of a stream holding a character constant and a string
\* literal
C5_Witness ==
    /\ spc = "shown"
    /\ \E k \in 1..Len(tokens) : tokens[k][2] = "Character_Constant"
    /\ \E k \in 1..Len(tokens) : tokens[k][2] = "String_Literal"
    /\ stats.Constant = 1

\* C6: every token and error record carries the line of its lexeme: 1 plus
\* the number of newline characters of the text before the lexeme's first
\* character.
C6_LineIsSourceLine ==
    [][ (Scanning /\ pos' # pos) =>
            /\ Len(tokens') > Len(tokens) =>
                   tokens'[Len(tokens')][1] = 1 + NewlinesBefore(source, pos)
            /\ Len(errors') > Len(errors) =>
                   errors'[Len(errors')][1] = 1 + NewlinesBefore(source, pos) ]_vars

\* C6: "a\nb\nc" scanned: tokens on lines 1, 2 and 3
C6_Witness ==
    /\ lexpc = "done"
    /\ source = <<"a","\n","b","\n","c">>
    /\ tokens = << <<1, "Identifier", <<"a">>>>, <<2, "Identifier", <<"b">>>>,
                   <<3, "Identifier", <<"c">>>> >>

\* C7: with the cursor on a Data_Type token int or float, a Declaration(type)
\* node is attached under the root with the next token, whatever its kind,
\* as child "ID: <lexeme>"; exactly when the token after that is an
\* Assignment_Operator, the operator and the token after it are consumed too
\* and that token is the second child, labelled Integer_Constant for int and
\* Float_Constant for float.
C7_DeclarationShape ==
    [][ (InLoop /\ IsDeclaration(Tok(tokens, i))) =>
            LET n == Len(tokens)
                type == Tok(tokens, i)[3]
                name == <<"D","e","c","l","a","r","a","t","i","o","n","(">> \o type \o <<")">>
                init == i + 2 < n /\ Tok(tokens, i + 2)[2] = "Assignment_Operator"
                ctype == IF type = <<"i","n","t">> THEN <<"I","n","t","e","g","e","r","_","C","o","n","s","t","a","n","t",":"," ">>
                         ELSE <<"F","l","o","a","t","_","C","o","n","s","t","a","n","t",":"," ">>
            IN  /\ bpc' = "loop"
                /\ Len(program') = Len(program) + 1
                /\ program'[Len(program')].name = name
                /\ i + 1 < n
                /\ init => i + 3 < n
                /\ program'[Len(program')].children =
                       IF init
                       THEN << Leaf(<<"I","D",":"," ">> \o Tok(tokens, i + 1)[3]),
                               Leaf(ctype \o Tok(tokens, i + 3)[3]) >>
                       ELSE << Leaf(<<"I","D",":"," ">> \o Tok(tokens, i + 1)[3]) >>
                /\ i' = IF init THEN i + 4 ELSE i + 2 ]_vars

\* C7: the tokens of "int x = 5 ;" built Declaration(int) with exactly the
\* children ID: x and Integer_Constant: 5
C7_Witness ==
    /\ bpc = "returned"
    /\ source = <<"i","n","t"," ","x"," ","="," ","5"," ",";">>
    /\ program = << Node(<<"D","e","c","l","a","r","a","t","i","o","n","(","i","n","t",")">>,
                         << Leaf(<<"I","D",":"," ","x">>), Leaf(<<"I","n","t","e","g","e","r","_","C","o","n","s","t","a","n","t",":"," ","5">>) >>) >>

\* s is one word: only word characters
IsWordText(s) == s # <<>> /\ \A k \in 1..Len(s) : s[k] \in WordChar

\* s is longer than a listed word it begins with and is itself not listed
MerelyBeginsWithListed(s) ==
    /\ IsWordText(s)
    /\ s \notin ListedWords
    /\ \E w \in ListedWords : Len(s) > Len(w) /\ SubSeq(s, 1, Len(w)) = w

\* C8: a text that is exactly one word of the data-type list scans to exactly
\* one Data_Type token, one of the keyword list to exactly one Keyword token,
\* and a longer word that merely begins with a listed word to exactly one
\* Identifier token; none of them gives an error.
C8_WordBoundaries ==
    lexpc = "done" =>
        /\ source \in Range(DataTypeWords) =>
               tokens = << <<1, "Data_Type", source>> >> /\ errors = <<>>
        /\ source \in Range(KeywordWords) =>
               tokens = << <<1, "Keyword", source>> >> /\ errors = <<>>
        /\ MerelyBeginsWithListed(source) =>
               tokens = << <<1, "Identifier", source>> >> /\ errors = <<>>

\* C8: "integer" scanned to one Identifier token
C8_Witness ==
    /\ lexpc = "done"
    /\ source = <<"i","n","t","e","g","e","r">>
    /\ MerelyBeginsWithListed(source)
    /\ tokens = << <<1, "Identifier", <<"i","n","t","e","g","e","r">>>> >>

\* the text has the opener /* at position p and no */ after the opener
UnterminatedOpenerAt(s, p) == Lit(s, p, <<"/","*">>) /\ FindLit(s, p + 2, <<"*","/">>) = 0

\* C9 as stated: at an opener /* with no closing */ after it the scan emits
\* one Block_Comment token running to the end of the text, and nothing else
\* for the characters after the opener.
C9_UnterminatedSwallows ==
    [][ (Scanning /\ UnterminatedOpenerAt(source, pos)) =>
            /\ tokens' = Append(tokens, <<line_no, "Block_Comment",
                                          SubSeq(source, pos, Len(source))>>)
            /\ errors' = errors
            /\ pos' = Len(source) + 1 ]_vars

\* C9 as amended (steps): at an opener /* with no closing */ after it the
\* scan emits the / as an Arithmetic_Operator token and then the * as an
\* Arithmetic_Operator token, and goes on after the opener.
C9_OpenerAsOperators ==
    /\ (Scanning /\ UnterminatedOpenerAt(source, pos)) =>
           /\ tokens' = Append(tokens, <<line_no, "Arithmetic_Operator", <<"/">>>>)
           /\ errors' = errors
           /\ pos' = pos + 1
    /\ (Scanning /\ pos > 1 /\ UnterminatedOpenerAt(source, pos - 1)
            /\ matched # <<>> /\ matched[Len(matched)] = <<"/">>) =>
           /\ tokens' = Append(tokens, <<line_no, "Arithmetic_Operator", <<"*">>>>)
           /\ errors' = errors
           /\ pos' = pos + 1

\* C9 as amended (state): every Block_Comment token ends with */
C9_BlockCommentsClosed ==
    \A k \in 1..Len(tokens) :
        tokens[k][2] = "Block_Comment" =>
            /\ Len(tokens[k][3]) >= 4
            /\ SubSeq(tokens[k][3], Len(tokens[k][3]) - 1, Len(tokens[k][3])) = <<"*","/">>

\* C9 as amended: an opener /* with no closing */ after it gives no
\* Block_Comment token: its / and * are emitted as two Arithmetic_Operator
\* tokens and the characters after it are scanned by the ordinary rules;
\* every Block_Comment token emitted ends with */.
C9_UnterminatedNotAComment ==
    /\ [][C9_OpenerAsOperators]_vars
    /\ []C9_BlockCommentsClosed

\* C9: "/* a\nb" scanned: the opener as two operators, then a and b
C9_Witness ==
    /\ lexpc = "done"
    /\ source = <<"/","*"," ","a","\n","b">>
    /\ UnterminatedOpenerAt(source, 1)
    /\ tokens = << <<1, "Arithmetic_Operator", <<"/">>>>,
                   <<1, "Arithmetic_Operator", <<"*">>>>,
                   <<1, "Identifier", <<"a">>>>, <<2, "Identifier", <<"b">>>> >>

\* the index (0-based) of the first Delimiter token from k on, Len(toks)
\* when there is none
NextDelimiter(toks, k) ==
    LET ds == {d \in k..(Len(toks) - 1) : Tok(toks, d)[2] = "Delimiter"}
    IN  IF ds = {} THEN Len(toks) ELSE CHOOSE d \in ds : \A e \in ds : d <= e

IsExpressionToken(tok) ==
    tok[2] \in {"Identifier", "Arithmetic_Operator", "Integer_Constant", "Float_Constant"}

ExpressionLabel(tok) ==
    IF tok[2] = "Identifier" THEN <<"I","D",":"," ">> \o tok[3]
    ELSE IF tok[2] = "Arithmetic_Operator" THEN <<"A","r","i","t","h","m","e","t","i","c","_","O","p","e","r","a","t","o","r",":"," ">> \o tok[3]
    ELSE IF tok[2] = "Integer_Constant" THEN <<"I","n","t","e","g","e","r","_","C","o","n","s","t","a","n","t",":"," ">> \o tok[3]
    ELSE <<"F","l","o","a","t","_","C","o","n","s","t","a","n","t",":"," ">> \o tok[3]

\* C10: with the cursor on an Identifier directly followed by an
\* Assignment_Operator, an Assignment node with the children "ID: <lexeme>"
\* and Expression is attached under the root; the Expression has one leaf, in
\* stream order, for each Identifier, Arithmetic_Operator, Integer_Constant
\* and Float_Constant token before the next Delimiter and none for the other
\* tokens there; nothing fails, the cursor ends just past that Delimiter (past
\* the end of the stream when there is none) and never moves back.
C10_AssignmentShape ==
    [][ /\ bpc = "loop" => i' >= i
        /\ (InLoop /\ Tok(tokens, i)[2] = "Identifier" /\ i + 1 < Len(tokens)
                /\ Tok(tokens, i + 1)[2] = "Assignment_Operator") =>
               LET d == NextDelimiter(tokens, i + 2)
                   span == SelectSeq(SubSeq(tokens, i + 3, d), IsExpressionToken)
                   leaves == [k \in 1..Len(span) |-> Leaf(ExpressionLabel(span[k]))]
               IN  /\ bpc' = "loop"
                   /\ program' = Append(program,
                          Node(<<"A","s","s","i","g","n","m","e","n","t">>,
                               << Leaf(<<"I","D",":"," ">> \o Tok(tokens, i)[3]),
                                  Node(<<"E","x","p","r","e","s","s","i","o","n">>, leaves) >>))
                   /\ i' = d + 1 ]_vars

\* C10: "x = a * ( b - 2.5 ) ; return 0 ;" built an Assignment whose
\* Expression holds a, *, b, - and 2.5 and not the parentheses, and the
\* return after the Delimiter was matched by its own shape
C10_Witness ==
    /\ bpc = "returned"
    /\ source = <<"x"," ","="," ","a"," ","*"," ","("," ","b"," ","-"," ","2",".","5"," ",")"," ",";"," ","r","e","t","u","r","n"," ","0"," ",";">>
    /\ Len(program) = 2
    /\ program[1].name = <<"A","s","s","i","g","n","m","e","n","t">>
    /\ Len(program[1].children[2].children) = 5
    /\ program[2].name = <<"r","e","t","u","r","n","(",")">>

====
